---- MODULE Spec2Model ----
(***************************************************************************)
(* A model of merge_manifests.py: the merge of the PDF and JP2 manifests   *)
(* into web_content/manifest.json, web_content/manifests/<slug>.json and   *)
(* web_content/manifests/index.json.                                       *)
(*                                                                         *)
(* A Python str is a sequence of one-character strings, so that strip,    *)
(* lower, replace, split, quote and the string comparisons of sort are     *)
(* computed character by character as the interpreter computes them.       *)
(* An optional value (None or a str) is the record Some(s) or None.        *)
(***************************************************************************)
EXTENDS Integers, Sequences, FiniteSets, TLC

(***************************************************************************)
(* Bounds of the model.                                                    *)
(***************************************************************************)
\* longest path, in '/'-separated segments, that an entry's path is drawn from
MaxSegments == 3
\* longest page_paths list of an entry handed to the transform
MaxPages == 2
\* most entries of the PDF manifest, and of the JP2 manifest, of a working tree
MaxPdf == 2
MaxJp2 == 1
\* most runs of the program, and most changes to its inputs between them
MaxRuns == 2
MaxEdits == 1

(***************************************************************************)
(* Characters.                                                             *)
(***************************************************************************)
\* the printable ASCII characters from ' ' (32) to '_' (95), in code point order
AsciiLow == <<" ","!","\"","#","$","%","&","'","(",")","*","+",",","-",".","/","0","1","2","3","4","5","6","7","8","9",":",";","<","=",">","?","@","A","B","C","D","E","F","G","H","I","J","K","L","M","N","O","P","Q","R","S","T","U","V","W","X","Y","Z","[","\\","]","^","_">>

\* the printable ASCII characters from 'a' (97) to '~' (126), in code point order
AsciiHigh == <<"a","b","c","d","e","f","g","h","i","j","k","l","m","n","o","p","q","r","s","t","u","v","w","x","y","z","{","|","}","~">>

Char == {AsciiLow[i] : i \in 1..Len(AsciiLow)} \cup {AsciiHigh[i] : i \in 1..Len(AsciiHigh)}

\* ord(c)
Ord == [c \in Char |->
          IF \E i \in 1..Len(AsciiLow) : AsciiLow[i] = c
          THEN 31 + (CHOOSE i \in 1..Len(AsciiLow) : AsciiLow[i] = c)
          ELSE 96 + (CHOOSE i \in 1..Len(AsciiHigh) : AsciiHigh[i] = c)]

\* chr(n)
Chr(n) == IF n < 96 THEN AsciiLow[n - 31] ELSE AsciiHigh[n - 96]

HexDigits == <<"0","1","2","3","4","5","6","7","8","9","A","B","C","D","E","F">>

\* str.isalnum() of one character
IsAlnum(c) == \/ Ord[c] \in 48..57
              \/ Ord[c] \in 65..90
              \/ Ord[c] \in 97..122

\* str.lower() of one character
LowerChar(c) == IF Ord[c] \in 65..90 THEN Chr(Ord[c] + 32) ELSE c

\* the characters str.strip() removes, among the printable ones
Whitespace == {" "}

(***************************************************************************)
(* str methods.                                                            *)
(***************************************************************************)
\* s.lower()
Lower(s) == [i \in 1..Len(s) |-> LowerChar(s[i])]

\* s.replace(a, b) for one-character a and b
Replace(s, a, b) == [i \in 1..Len(s) |-> IF s[i] = a THEN b ELSE s[i]]

RECURSIVE LStrip(_, _)
\* s.lstrip(chars)
LStrip(s, chars) ==
    IF s # <<>> /\ Head(s) \in chars THEN LStrip(Tail(s), chars) ELSE s

RECURSIVE RStrip(_, _)
\* s.rstrip(chars)
RStrip(s, chars) ==
    IF s # <<>> /\ s[Len(s)] \in chars
    THEN RStrip(SubSeq(s, 1, Len(s) - 1), chars)
    ELSE s

\* s.strip(chars)
Strip(s, chars) == RStrip(LStrip(s, chars), chars)

\* s.startswith(prefix)
StartsWith(s, prefix) ==
    /\ Len(s) >= Len(prefix)
    /\ SubSeq(s, 1, Len(prefix)) = prefix

RECURSIVE SplitFrom(_, _, _)
\* the segments of s from position i on, cur being the segment under way
SplitFrom(s, i, cur) ==
    IF i > Len(s) THEN <<cur>>
    ELSE IF s[i] = "/" THEN <<cur>> \o SplitFrom(s, i + 1, <<>>)
    ELSE SplitFrom(s, i + 1, Append(cur, s[i]))

\* s.split('/')
Split(s) == SplitFrom(s, 1, <<>>)

RECURSIVE Join(_)
\* '/'.join(parts)
Join(parts) ==
    IF parts = <<>> THEN <<>>
    ELSE IF Len(parts) = 1 THEN parts[1]
    ELSE parts[1] \o <<"/">> \o Join(Tail(parts))

\* the characters urllib.parse.quote never encodes: its always-safe set and
\* the default safe='/'
QuoteSafe == {c \in Char : IsAlnum(c)} \cup {"_", ".", "-", "~", "/"}

\* QuoteChar as quote_plus has it: a space becomes '+'
QuoteCharPlus(c) ==
    IF c \in QuoteSafe THEN <<c>>
    ELSE IF c = " " THEN <<"+">>
    ELSE <<"%", HexDigits[(Ord[c] \div 16) + 1], HexDigits[(Ord[c] % 16) + 1]>>

\* quote of one character: itself, or %XX with upper-case hex digits
QuoteChar(c) ==
    IF c \in QuoteSafe THEN <<c>>
    ELSE <<"%", HexDigits[(Ord[c] \div 16) + 1], HexDigits[(Ord[c] % 16) + 1]>>

RECURSIVE quote(_)
\* urllib.parse.quote(part)
quote(part) ==
    IF part = <<>> THEN <<>> ELSE QuoteChar(Head(part)) \o quote(Tail(part))

RECURSIVE StrLess(_, _)
\* a < b for two str, as sort compares its keys: by code point, a proper
\* prefix first
StrLess(a, b) ==
    IF b = <<>> THEN FALSE
    ELSE IF a = <<>> THEN TRUE
    ELSE IF Head(a) = Head(b) THEN StrLess(Tail(a), Tail(b))
    ELSE Ord[Head(a)] < Ord[Head(b)]

(***************************************************************************)
(* Optional values and dictionaries.                                       *)
(***************************************************************************)
None == [some |-> FALSE, v |-> <<>>]

Some(s) == [some |-> TRUE, v |-> s]

\* d.get(key), None when the key is absent
Get(d, key) == IF key \in DOMAIN d THEN d[key] ELSE None

\* a configuration entry that is a mapping, and one that is not
Dict(d) == [dict |-> TRUE, d |-> d]

EmptyDict == [k \in {} |-> <<>>]

Scalar == [dict |-> FALSE, d |-> EmptyDict]

(***************************************************************************)
(* String constants of the program.                                        *)
(***************************************************************************)
\* 'https://raw.githubusercontent.com/'
RawHost == <<"h","t","t","p","s",":","/","/","r","a","w",".","g","i","t","h","u","b","u","s","e","r","c","o","n","t","e","n","t",".","c","o","m","/">>

\* 'main', the default branch
DefaultBranch == <<"m","a","i","n">>

HttpScheme == <<"h","t","t","p",":","/","/">>

HttpsScheme == <<"h","t","t","p","s",":","/","/">>

(***************************************************************************)
(* The helpers of merge_manifests.py.                                      *)
(***************************************************************************)
\* _slugify(title)
_slugify(title) ==
    LET stripped == Strip(title, Whitespace)
        slug1 == Replace(Lower(stripped), "+", "-")
        slug2 == Replace(slug1, " ", "-")
    IN  SelectSeq(slug2, LAMBDA char : IsAlnum(char) \/ char \in {"-", "_"})

\* _compute_base_url testing 'repo is None' where the code tests 'not repo'
ComputeBaseUrlEmptyRepo(config_entry) ==
    LET branch == IF config_entry.dict /\ "branch" \in DOMAIN config_entry.d
                  THEN config_entry.d["branch"] ELSE DefaultBranch
    IN  IF ~config_entry.dict \/ "repo" \notin DOMAIN config_entry.d THEN None
        ELSE Some(RStrip(RawHost \o config_entry.d["repo"] \o <<"/">> \o branch,
                         {"/"}))

\* _compute_base_url(config_entry): None, or Some(base url)
_compute_base_url(config_entry) ==
    LET repo == IF config_entry.dict /\ "repo" \in DOMAIN config_entry.d
                THEN config_entry.d["repo"] ELSE <<>>
        branch == IF config_entry.dict /\ "branch" \in DOMAIN config_entry.d
                  THEN config_entry.d["branch"] ELSE DefaultBranch
    IN  IF repo = <<>> THEN None
        ELSE Some(RStrip(RawHost \o repo \o <<"/">> \o branch, {"/"}))

\* _to_remote_path comparing the path with the slug as it is written, without
\* normalized.lower()
ToRemotePathCaseSensitive(base_url, original_path, slug) ==
    IF ~original_path.some \/ original_path.v = <<>> THEN original_path
    ELSE IF \/ StartsWith(original_path.v, HttpScheme)
            \/ StartsWith(original_path.v, HttpsScheme) THEN original_path
    ELSE IF ~base_url.some \/ base_url.v = <<>> THEN original_path
    ELSE LET normalized0 == LStrip(original_path.v, {"/"})
             slug1 == Lower(Strip(slug, {"/"}))
             normalized ==
                 IF /\ slug # <<>>
                    /\ StartsWith(normalized0, slug1 \o <<"/">>)
                 THEN SubSeq(normalized0, Len(slug1) + 2, Len(normalized0))
                 ELSE normalized0
             parts == Split(normalized)
             segments == [i \in 1..Len(parts) |-> quote(parts[i])]
         IN  Some(base_url.v \o <<"/">> \o Join(segments))

\* _to_remote_path(base_url, original_path, slug): original_path is None or
\* Some(str), and so is the result
_to_remote_path(base_url, original_path, slug) ==
    IF ~original_path.some \/ original_path.v = <<>> THEN original_path
    ELSE IF \/ StartsWith(original_path.v, HttpScheme)
            \/ StartsWith(original_path.v, HttpsScheme) THEN original_path
    ELSE IF ~base_url.some \/ base_url.v = <<>> THEN original_path
    ELSE LET normalized0 == LStrip(original_path.v, {"/"})
             slug1 == Lower(Strip(slug, {"/"}))
             normalized ==
                 IF /\ slug # <<>>
                    /\ StartsWith(Lower(normalized0), slug1 \o <<"/">>)
                 THEN SubSeq(normalized0, Len(slug1) + 2, Len(normalized0))
                 ELSE normalized0
             parts == Split(normalized)
             segments == [i \in 1..Len(parts) |-> quote(parts[i])]
         IN  Some(base_url.v \o <<"/">> \o Join(segments))

\* _transform_issue(issue, base_url, slug)
_transform_issue(issue, base_url, slug) ==
    LET withThumb ==
            [k \in DOMAIN issue \cup {"issue_thumb"} |->
                IF k = "issue_thumb"
                THEN _to_remote_path(base_url, Get(issue, "issue_thumb"), slug)
                ELSE issue[k]]
    IN  IF "page_paths" \in DOMAIN issue /\ issue["page_paths"].list
        THEN [withThumb EXCEPT !["page_paths"] =
                 [list |-> TRUE,
                  v |-> [i \in 1..Len(issue["page_paths"].v) |->
                            _to_remote_path(base_url, issue["page_paths"].v[i], slug)]]]
        ELSE withThumb

(***************************************************************************)
(* The files the program reads and writes.                                 *)
(*   manifest_pdf  web_content/manifest_pdf.json                           *)
(*   manifest      web_content/manifest.json (legacy input, and output)    *)
(*   manifest_jp2  web_content/manifest_jp2.json                           *)
(*   papers_yaml   config/papers.yaml                                      *)
(*   manifests     the directory web_content/manifests                     *)
(* and, of the last run of merge_manifests: how it ended (outcome), the    *)
(* PDF manifest it chose (pdf_manifest_path), the files as they were when  *)
(* it started (before), and the outcome and the choice of the run before   *)
(* it when nothing happened in between (previous).                         *)
(* issue and transformed are one entry and its transform.                  *)
(***************************************************************************)
VARIABLES manifest_pdf, manifest, manifest_jp2, papers_yaml, manifests,
          outcome, pdf_manifest_path, before, previous, last, runs, edits,
          issue, transformed

files == <<manifest_pdf, manifest, manifest_jp2, papers_yaml, manifests>>

history == <<outcome, pdf_manifest_path, before, previous, last, runs, edits>>

vars == <<manifest_pdf, manifest, manifest_jp2, papers_yaml, manifests,
          outcome, pdf_manifest_path, before, previous, last, runs, edits,
          issue, transformed>>

\* a file that does not exist, one whose content does not parse, a JSON
\* file holding a list of entries, a YAML file holding a document
Absent == [kind |-> "absent", v |-> <<>>]

Malformed == [kind |-> "malformed", v |-> <<>>]

Json(entries) == [kind |-> "json", v |-> entries]

Yaml(doc) == [kind |-> "yaml", v |-> doc]

\* the directory web_content/manifests: whether it exists, and its files by name
NoDir == [exists |-> FALSE, entries |-> EmptyDict]

\* the file names '<slug>.json' and 'index.json'
JsonName(slug) == slug \o <<".","j","s","o","n">>

IndexName == <<"i","n","d","e","x",".","j","s","o","n">>

\* load_paper_config() on a config file that exists and parses, or is absent
load_paper_config(yaml) ==
    IF yaml.kind = "yaml" /\ "papers" \in DOMAIN yaml.v
    THEN yaml.v["papers"]
    ELSE EmptyDict

\* paper_config.get(slug, {})
ConfigEntry(paper_config, slug) ==
    IF slug \in DOMAIN paper_config THEN paper_config[slug] ELSE Dict(EmptyDict)

\* the body of the loop over all_issues: the transform of one issue
TransformOne(paper_config, one) ==
    LET slug == _slugify(one["title"])
        base_url == _compute_base_url(ConfigEntry(paper_config, slug))
    IN  _transform_issue(one, base_url, slug)

(***************************************************************************)
(* merge_manifests().                                                      *)
(* fs is the record of the five files; the result is how the run ended and *)
(* the files it leaves.                                                    *)
(***************************************************************************)
Files(pdf, legacy, jp2, yaml, dir) ==
    [manifest_pdf |-> pdf, manifest |-> legacy, manifest_jp2 |-> jp2,
     papers_yaml |-> yaml, manifests |-> dir]

\* pdf_manifest_path: the first of manifest_pdf.json and manifest.json that
\* exists, or none
PdfManifestPath(fs) ==
    IF fs.manifest_pdf.kind # "absent" THEN "manifest_pdf"
    ELSE IF fs.manifest.kind # "absent" THEN "manifest"
    ELSE "none"

\* the file at pdf_manifest_path
PdfManifest(fs) ==
    IF PdfManifestPath(fs) = "manifest_pdf" THEN fs.manifest_pdf
    ELSE IF PdfManifestPath(fs) = "manifest" THEN fs.manifest
    ELSE Absent

\* json.load of a source file that exists, and no entries for one that does not
LoadSource(file) ==
    IF file.kind = "malformed" THEN [raised |-> TRUE, issues |-> <<>>]
    ELSE [raised |-> FALSE, issues |-> file.v]

RECURSIVE InsertSortedBeforeEqual(_, _, _)
\* InsertSorted putting x before the elements of its own key: the sort is no
\* longer stable
InsertSortedBeforeEqual(sorted, x, key) ==
    IF sorted # <<>> /\ ~StrLess(sorted[Len(sorted)][key], x[key])
    THEN Append(InsertSortedBeforeEqual(SubSeq(sorted, 1, Len(sorted) - 1), x, key),
                sorted[Len(sorted)])
    ELSE Append(sorted, x)

RECURSIVE InsertSorted(_, _, _)
\* sorted with x put behind its last element whose key is not above x's
InsertSorted(sorted, x, key) ==
    IF sorted # <<>> /\ StrLess(x[key], sorted[Len(sorted)][key])
    THEN Append(InsertSorted(SubSeq(sorted, 1, Len(sorted) - 1), x, key),
                sorted[Len(sorted)])
    ELSE Append(sorted, x)

RECURSIVE SortBy(_, _)
\* list.sort(key=lambda x: x[key]): a stable sort
SortBy(list, key) ==
    IF list = <<>> THEN <<>>
    ELSE InsertSorted(SortBy(SubSeq(list, 1, Len(list) - 1), key),
                      list[Len(list)], key)

\* transformed_all_issues
TransformAll(all_issues, paper_config) ==
    [i \in 1..Len(all_issues) |-> TransformOne(paper_config, all_issues[i])]

RECURSIVE SlugOrder(_)
\* the keys of per_paper_issues in the order of their insertion
SlugOrder(all_issues) ==
    IF all_issues = <<>> THEN <<>>
    ELSE LET front == SlugOrder(SubSeq(all_issues, 1, Len(all_issues) - 1))
             slug == _slugify(all_issues[Len(all_issues)]["title"])
         IN  IF \E i \in 1..Len(front) : front[i] = slug
             THEN front
             ELSE Append(front, slug)

\* per_paper_issues[slug], sorted by date again
PerPaperIssues(transformed_all_issues, slug) ==
    SortBy(SelectSeq(transformed_all_issues,
                     LAMBDA one : _slugify(one["title"]) = slug),
           "date")

\* manifest_payload of one paper
ManifestPayload(slug, issues) ==
    [manifest_version |-> 1,
     title |-> IF issues # <<>> THEN issues[1]["title"] ELSE slug,
     issues |-> issues]

\* '/manifests/paper-manifest.json'
RemoteManifestPath == <<"/","m","a","n","i","f","e","s","t","s","/","p","a","p","e","r","-","m","a","n","i","f","e","s","t",".","j","s","o","n">>

\* 'manifests/'
ManifestsPrefix == <<"m","a","n","i","f","e","s","t","s","/">>

\* the entry of index_payload of one paper
IndexEntry(slug, issues, paper_config) ==
    LET base_url == _compute_base_url(ConfigEntry(paper_config, slug))
    IN  [slug |-> slug,
         title |-> ManifestPayload(slug, issues).title,
         issue_count |-> Len(issues),
         manifest_path |-> ManifestsPrefix \o JsonName(slug),
         remote_manifest |->
             IF base_url.some /\ base_url.v # <<>>
             THEN Some(base_url.v \o RemoteManifestPath)
             ELSE None]

\* index_payload without index_payload.sort
IndexPayloadUnsorted(transformed_all_issues, paper_config) ==
    LET slugs == SlugOrder(transformed_all_issues)
    IN  [i \in 1..Len(slugs) |->
            IndexEntry(slugs[i],
                       PerPaperIssues(transformed_all_issues, slugs[i]),
                       paper_config)]

\* index_payload, sorted by title
IndexPayload(transformed_all_issues, paper_config) ==
    LET slugs == SlugOrder(transformed_all_issues)
    IN  SortBy([i \in 1..Len(slugs) |->
                   IndexEntry(slugs[i],
                              PerPaperIssues(transformed_all_issues, slugs[i]),
                              paper_config)],
               "title")

\* WriteManifests into a directory emptied first
WriteManifestsFresh(dir, transformed_all_issues, paper_config) ==
    LET slugs == SlugOrder(transformed_all_issues)
        papers == [name \in {JsonName(slugs[i]) : i \in 1..Len(slugs)} |->
                      LET slug == CHOOSE sl \in {slugs[i] : i \in 1..Len(slugs)} :
                                      JsonName(sl) = name
                      IN  ManifestPayload(slug,
                              PerPaperIssues(transformed_all_issues, slug))]
        index == [manifest_version |-> 1,
                  papers |-> IndexPayload(transformed_all_issues, paper_config)]
    IN  [exists |-> TRUE, entries |-> (IndexName :> index) @@ papers]

\* the directory after the writes to it: each paper's file in turn, then
\* index.json; a later write to a name replaces an earlier one
WriteManifests(dir, transformed_all_issues, paper_config) ==
    LET slugs == SlugOrder(transformed_all_issues)
        papers == [name \in {JsonName(slugs[i]) : i \in 1..Len(slugs)} |->
                      LET slug == CHOOSE sl \in {slugs[i] : i \in 1..Len(slugs)} :
                                      JsonName(sl) = name
                      IN  ManifestPayload(slug,
                              PerPaperIssues(transformed_all_issues, slug))]
        index == [manifest_version |-> 1,
                  papers |-> IndexPayload(transformed_all_issues, paper_config)]
    IN  [exists |-> TRUE,
         entries |-> (IndexName :> index) @@ papers @@ dir.entries]

\* MergeLoaded writing manifest.json before it loads the configuration
MergeLoadedWritesFirst(fs, all_issues) ==
    IF fs.papers_yaml.kind = "malformed"
    THEN [outcome |-> "yaml_error",
          fs |-> [fs EXCEPT !.manifest = Json(SortBy(all_issues, "date"))]]
    ELSE LET paper_config == load_paper_config(fs.papers_yaml)
             transformed_all_issues ==
                 TransformAll(SortBy(all_issues, "date"), paper_config)
         IN  [outcome |-> "ok",
              fs |-> [fs EXCEPT
                         !.manifest = Json(transformed_all_issues),
                         !.manifests = WriteManifests(fs.manifests,
                                           transformed_all_issues, paper_config)]]

\* the run from line 61 on: all_issues is not empty
MergeLoaded(fs, all_issues) ==
    IF fs.papers_yaml.kind = "malformed"
    THEN [outcome |-> "yaml_error", fs |-> fs]
    ELSE LET paper_config == load_paper_config(fs.papers_yaml)
             transformed_all_issues ==
                 TransformAll(SortBy(all_issues, "date"), paper_config)
         IN  [outcome |-> "ok",
              fs |-> [fs EXCEPT
                         !.manifest = Json(transformed_all_issues),
                         !.manifests = WriteManifests(fs.manifests,
                                           transformed_all_issues, paper_config)]]

\* merge_manifests()
merge_manifests(fs) ==
    LET pdf == LoadSource(PdfManifest(fs))
        jp2 == LoadSource(fs.manifest_jp2)
        all_issues == pdf.issues \o jp2.issues
    IN  IF pdf.raised \/ jp2.raised
        THEN [outcome |-> "json_error", fs |-> fs]
        ELSE IF all_issues = <<>>
        THEN [outcome |-> "empty", fs |-> fs]
        ELSE MergeLoaded(fs, all_issues)

(***************************************************************************)
(* The transform of one entry: the inputs it is checked on.                *)
(***************************************************************************)
\* the sequences over S of length 1 to n
SeqsUpTo(S, n) == UNION {[1..k -> S] : k \in 1..n}

\* the sequences over S of length 0 to n
ListsUpTo(S, n) == {<<>>} \cup SeqsUpTo(S, n)

\* 'Daily Times'
DailyTimes == <<"D","a","i","l","y"," ","T","i","m","e","s">>

\* titles: 'Daily Times' and ' Daily+Times ' (both of slug 'daily-times'),
\* '!' (of the empty slug) and 'Bee'
XTitles == {DailyTimes,
            <<" ","D","a","i","l","y","+","T","i","m","e","s"," ">>,
            <<"!">>,
            <<"B","e","e">>}

\* path segments: '', 'Daily Times', 'Daily-Times' and 'th.jpg'
Segments == {<<>>,
             DailyTimes,
             <<"D","a","i","l","y","-","T","i","m","e","s">>,
             <<"t","h",".","j","p","g">>}

\* 'http://h/a b', 'https://h/x' and 'HTTP://h'
UrlPaths == {<<"h","t","t","p",":","/","/","h","/","a"," ","b">>,
             <<"h","t","t","p","s",":","/","/","h","/","x">>,
             <<"H","T","T","P",":","/","/","h">>}

\* the paths an entry's thumbnail is drawn from
Paths == {Join(segs) : segs \in SeqsUpTo(Segments, MaxSegments)} \cup UrlPaths

\* 'Daily-Times/p 1' and 'https://h/x', and 'Daily Times/p1.jpg'
PagePool == {Some(<<"D","a","i","l","y","-","T","i","m","e","s","/","p"," ","1">>),
             Some(<<"h","t","t","p","s",":","/","/","h","/","x">>)}

ScenarioPages == <<Some(<<"D","a","i","l","y"," ","T","i","m","e","s","/","p","1",".","j","p","g">>)>>

\* a JSON list, and a JSON value that is no list (here a str)
List(items) == [list |-> TRUE, v |-> items]

NonList(s) == [list |-> FALSE, v |-> <<Some(s)>>]

\* '2021-05-01'
ScenarioDate == <<"2","0","2","1","-","0","5","-","0","1">>

\* the optional fields of an entry: none, or the one field
NoField == EmptyDict

ThumbFields == {NoField, "issue_thumb" :> None}
                   \cup {"issue_thumb" :> Some(path) : path \in Paths}

PageFields == {NoField, "page_paths" :> NonList(<<"p",".","j","p","g">>),
               "page_paths" :> List(ScenarioPages)}
                  \cup {"page_paths" :> List(l) : l \in ListsUpTo(PagePool, MaxPages)}

\* the entries the transform is checked on
XIssues == {[title |-> t, date |-> ScenarioDate] @@ th @@ pp :
               t \in XTitles, th \in ThumbFields, pp \in PageFields}

OrgRepo == <<"o","r","g","/","r","e","p","o">>

DailyTimesSlug == <<"d","a","i","l","y","-","t","i","m","e","s">>

BeeSlug == <<"b","e","e">>

\* papers: {daily-times: {repo: org/repo, branch: main}, bee: {branch: main}}
ScenarioConfig ==
    Yaml([papers |->
        (DailyTimesSlug :> Dict([repo |-> OrgRepo, branch |-> DefaultBranch]))
     @@ (BeeSlug :> Dict([branch |-> DefaultBranch]))])

\* the configuration files the transform is checked on: none, one without
\* the key papers, and three with it
XConfigs == {
    Absent,
    Yaml(EmptyDict),
    ScenarioConfig,
    \* {daily-times: {repo: org/repo}, bee: 7, '': {repo: o/r, branch: dev/}}
    Yaml([papers |->
        (DailyTimesSlug :> Dict([repo |-> OrgRepo]))
     @@ (BeeSlug :> Scalar)
     @@ (<<>> :> Dict([repo |-> <<"o","/","r">>, branch |-> <<"d","e","v","/">>]))]),
    \* {daily-times: {repo: ''}, bee: {repo: org/repo, branch: ''}}
    Yaml([papers |->
        (DailyTimesSlug :> Dict([repo |-> <<>>]))
     @@ (BeeSlug :> Dict([repo |-> OrgRepo, branch |-> <<>>]))])}

NoIssue == EmptyDict

\* no run yet, or something happened since
NoRun == [outcome |-> "none", pdf_manifest_path |-> "none"]

XInit ==
    /\ manifest_pdf = Absent
    /\ manifest = Absent
    /\ manifest_jp2 = Absent
    /\ manifests = NoDir
    /\ papers_yaml \in XConfigs
    /\ outcome = "none"
    /\ pdf_manifest_path = "none"
    /\ previous = NoRun
    /\ last = "init"
    /\ runs = 0
    /\ edits = 0
    /\ before = files
    /\ issue \in XIssues
    /\ transformed = NoIssue

\* lines 64 and 69-71 of merge_manifests, for one issue
Transform ==
    /\ transformed = NoIssue
    /\ transformed' = TransformOne(load_paper_config(papers_yaml), issue)
    /\ UNCHANGED <<files, history, issue>>

XNext == Transform

XSpec == XInit /\ [][XNext]_vars

Transformed == transformed # NoIssue

(***************************************************************************)
(* Claims about the transform of one entry, checked under XSpec.           *)
(***************************************************************************)
\* the slug and the base URL the transform computed for the entry
XSlug == _slugify(issue["title"])

XBaseUrl == _compute_base_url(ConfigEntry(load_paper_config(papers_yaml), XSlug))

\* the (input path, output path) pairs of the entry: its thumbnail path and
\* its page paths, where the entry has them
ThumbPairs ==
    IF "issue_thumb" \in DOMAIN issue
    THEN {<<issue["issue_thumb"], transformed["issue_thumb"]>>}
    ELSE {}

PagePairs ==
    IF "page_paths" \in DOMAIN issue /\ issue["page_paths"].list
    THEN {<<issue["page_paths"].v[i], transformed["page_paths"].v[i]>> :
             i \in 1..Len(issue["page_paths"].v)}
    ELSE {}

PathPairs == ThumbPairs \cup PagePairs

IsAbsoluteUrl(path) ==
    \/ StartsWith(path, HttpScheme)
    \/ StartsWith(path, HttpsScheme)

\* a path that is present, non-empty and no absolute URL
IsRelative(original) ==
    /\ original.some
    /\ original.v # <<>>
    /\ ~IsAbsoluteUrl(original.v)

\* path without its first character when that is a slash
OneSlashStripped(path) ==
    IF path # <<>> /\ path[1] = "/" THEN Tail(path) ELSE path

\* path from its first character that is no slash
AllSlashesStripped(path) ==
    LET others == {i \in 1..Len(path) : path[i] # "/"}
    IN  IF others = {} THEN <<>>
        ELSE SubSeq(path, CHOOSE i \in others : \A j \in others : i <= j, Len(path))

\* path without a leading '<slug>/', compared case-insensitively
SlugPrefixRemoved(path, slug) ==
    IF /\ Len(path) > Len(slug)
       /\ \A i \in 1..Len(slug) : LowerChar(path[i]) = slug[i]
       /\ path[Len(slug) + 1] = "/"
    THEN SubSeq(path, Len(slug) + 2, Len(path))
    ELSE path

RECURSIVE SegmentsEncoded(_)
\* path with every character outside the separators percent-encoded
SegmentsEncoded(path) ==
    IF path = <<>> THEN <<>>
    ELSE (IF Head(path) = "/" THEN <<"/">> ELSE quote(<<Head(path)>>))
             \o SegmentsEncoded(Tail(path))

\* C1 as stated: of a relative path under a resolvable base URL the transform
\* writes '<base_url>/<percent-encoded path>', the path having lost its
\* leading slash (one) and then a leading '<slug>/' once
C1RemotePathOneSlash ==
    Transformed /\ XBaseUrl.some =>
        \A pair \in PathPairs :
            IsRelative(pair[1]) =>
                pair[2] = Some(XBaseUrl.v \o <<"/">> \o SegmentsEncoded(
                              SlugPrefixRemoved(OneSlashStripped(pair[1].v), XSlug)))

\* C1 amended: of a relative path under a resolvable base URL the transform
\* writes '<base_url>/<percent-encoded path>', the path having lost all of its
\* leading slashes and then a leading '<slug>/' (case-insensitive) once, each
\* segment percent-encoded on its own
C1RemotePath ==
    Transformed /\ XBaseUrl.some =>
        \A pair \in PathPairs :
            IsRelative(pair[1]) =>
                pair[2] = Some(XBaseUrl.v \o <<"/">> \o SegmentsEncoded(
                              SlugPrefixRemoved(AllSlashesStripped(pair[1].v), XSlug)))

\* a rewritten thumbnail '/Daily-Times/Daily Times' of 'Daily Times': a
\* leading slash, the slug prefix in another case, a space to encode
C1Witness ==
    /\ Transformed
    /\ XBaseUrl.some
    /\ issue["title"] = DailyTimes
    /\ "issue_thumb" \in DOMAIN issue
    /\ issue["issue_thumb"] =
           Some(<<"/","D","a","i","l","y","-","T","i","m","e","s","/">> \o DailyTimes)
    /\ "page_paths" \in DOMAIN issue
    /\ issue["page_paths"].list
    /\ Len(issue["page_paths"].v) = MaxPages

\* the entry and the configuration of scenario 2
IsScenario2 ==
    /\ issue["title"] = DailyTimes
    /\ "issue_thumb" \in DOMAIN issue
    /\ issue["issue_thumb"] = Some(DailyTimes \o <<"/","t","h",".","j","p","g">>)
    /\ XSlug = DailyTimesSlug
    /\ ConfigEntry(load_paper_config(papers_yaml), XSlug)
           = Dict([repo |-> OrgRepo, branch |-> DefaultBranch])

\* 'https://raw.githubusercontent.com/org/repo/main'
Scenario2Base == RawHost \o OrgRepo \o <<"/">> \o DefaultBranch

\* C2 as stated: in scenario 2 the thumbnail 'Daily Times/th.jpg' becomes
\* 'https://raw.githubusercontent.com/org/repo/main/th.jpg'
C2ScenarioStripped ==
    Transformed /\ IsScenario2 =>
        transformed["issue_thumb"]
            = Some(Scenario2Base \o <<"/","t","h",".","j","p","g">>)

\* C2 amended: in scenario 2 the thumbnail 'Daily Times/th.jpg' becomes
\* 'https://raw.githubusercontent.com/org/repo/main/Daily%20Times/th.jpg':
\* the path does not begin with 'daily-times/', nothing is stripped, and the
\* space is percent-encoded
C2Scenario ==
    Transformed /\ IsScenario2 =>
        transformed["issue_thumb"]
            = Some(Scenario2Base
                   \o <<"/","D","a","i","l","y","%","2","0","T","i","m","e","s">>
                   \o <<"/","t","h",".","j","p","g">>)

\* scenario 2, transformed, with the page path of the scenario
C2Witness ==
    /\ Transformed
    /\ IsScenario2
    /\ "page_paths" \in DOMAIN issue
    /\ issue["page_paths"] = List(ScenarioPages)

\* no base URL is resolvable for the entry's slug: no config file, no papers
\* in it, the slug not among them, or its entry without a repository
NoBaseUrl ==
    \/ papers_yaml.kind = "absent"
    \/ "papers" \notin DOMAIN papers_yaml.v
    \/ XSlug \notin DOMAIN papers_yaml.v["papers"]
    \/ ~papers_yaml.v["papers"][XSlug].dict
    \/ "repo" \notin DOMAIN papers_yaml.v["papers"][XSlug].d
    \/ papers_yaml.v["papers"][XSlug].d["repo"] = <<>>

\* C7: a path beginning with 'http://' or 'https://' is written as it was
\* read under any configuration, and so is a relative path when no base URL is
\* resolvable for the entry's slug
C7PathUnchanged ==
    Transformed =>
        \A pair \in PathPairs :
            /\ pair[1].some /\ IsAbsoluteUrl(pair[1].v) => pair[2] = pair[1]
            /\ IsRelative(pair[1]) /\ NoBaseUrl => pair[2] = pair[1]

\* an entry of a configured paper with an 'http://' thumbnail and an
\* 'https://' page path among its pages
C7Witness ==
    /\ Transformed
    /\ XBaseUrl.some
    /\ "issue_thumb" \in DOMAIN issue
    /\ issue["issue_thumb"].some
    /\ StartsWith(issue["issue_thumb"].v, HttpScheme)
    /\ \E pair \in PagePairs : StartsWith(pair[1].v, HttpsScheme)
    /\ \E pair \in PagePairs : IsRelative(pair[1])

\* an entry, of a paper the configuration gives no repository, with a
\* relative thumbnail
C7WitnessNoBase ==
    /\ Transformed
    /\ NoBaseUrl
    /\ papers_yaml.kind = "yaml"
    /\ \E pair \in ThumbPairs : IsRelative(pair[1])

\* C8 as stated: the transform changes nothing but the values of the paths:
\* the output entry has the fields of the input entry, every field other than
\* issue_thumb and page_paths has its value, and an empty or absent thumbnail
\* and an absent or non-list page_paths are as they were
C8FrameOnlyPaths ==
    Transformed =>
        /\ DOMAIN transformed = DOMAIN issue
        /\ \A k \in DOMAIN issue \ {"issue_thumb", "page_paths"} :
               transformed[k] = issue[k]
        /\ \A k \in DOMAIN issue \cap {"issue_thumb"} :
               ~IsRelative(issue[k]) => transformed[k] = issue[k]
        /\ \A k \in DOMAIN issue \cap {"page_paths"} :
               ~issue[k].list => transformed[k] = issue[k]

(***************************************************************************)
(* Runs of merge_manifests over a working tree that changes between them.  *)
(***************************************************************************)
\* 'Bee' of 1902 with the thumbnail 'bee/a b'
Issue1 == [title |-> <<"B","e","e">>, date |-> <<"1","9","0","2">>,
           issue_thumb |-> Some(<<"b","e","e","/","a"," ","b">>)]

\* 'bee!' of 1902, of the slug of 'Bee', without a thumbnail
Issue2 == [title |-> <<"b","e","e","!">>, date |-> <<"1","9","0","2">>,
           page_paths |-> List(<<Some(<<"/","p",".","j","p","g">>)>>)]

\* 'Index' of 1901 with the thumbnail 'http://h/a b'
Issue3 == [title |-> <<"I","n","d","e","x">>, date |-> <<"1","9","0","1">>,
           issue_thumb |-> Some(<<"h","t","t","p",":","/","/","h","/","a"," ","b">>)]

Issues == {Issue1, Issue2, Issue3}

\* a source file: none, one that does not parse, or a list of at most n issues
SourceFiles(n) == {Absent, Malformed} \cup {Json(l) : l \in ListsUpTo(Issues, n)}

\* papers: {bee: {repo: org/repo}}
BeeConfig == Yaml([papers |-> (BeeSlug :> Dict([repo |-> OrgRepo]))])

Configs == {Absent, Malformed, BeeConfig}

Init ==
    /\ \E pdf \in SourceFiles(MaxPdf) :
           \/ manifest_pdf = pdf /\ manifest = Absent
           \/ manifest_pdf = Absent /\ manifest = pdf
    /\ manifest_jp2 \in SourceFiles(MaxJp2)
    /\ papers_yaml \in Configs
    /\ manifests = NoDir
    /\ outcome = "none"
    /\ pdf_manifest_path = "none"
    /\ previous = NoRun
    /\ last = "init"
    /\ runs = 0
    /\ edits = 0
    /\ before = files
    /\ issue = NoIssue
    /\ transformed = NoIssue

\* one run of the program
Merge ==
    /\ runs < MaxRuns
    /\ \E run \in {merge_manifests(Files(manifest_pdf, manifest, manifest_jp2,
                                         papers_yaml, manifests))} :
           /\ manifest_pdf' = run.fs.manifest_pdf
           /\ manifest' = run.fs.manifest
           /\ manifest_jp2' = run.fs.manifest_jp2
           /\ papers_yaml' = run.fs.papers_yaml
           /\ manifests' = run.fs.manifests
           /\ outcome' = run.outcome
    /\ pdf_manifest_path' =
           PdfManifestPath(Files(manifest_pdf, manifest, manifest_jp2,
                                 papers_yaml, manifests))
    /\ before' = files
    /\ previous' = IF last = "run"
                   THEN [outcome |-> outcome, pdf_manifest_path |-> pdf_manifest_path]
                   ELSE NoRun
    /\ last' = "run"
    /\ runs' = runs + 1
    /\ UNCHANGED <<edits, issue, transformed>>

\* between two runs somebody removes one of the input files, or leaves it
\* unparsable
Edit ==
    /\ last = "run"
    /\ runs < MaxRuns
    /\ edits < MaxEdits
    /\ \E content \in {Absent, Malformed} :
           \/ manifest_pdf # content /\ manifest_pdf' = content
                 /\ UNCHANGED <<manifest, manifest_jp2, papers_yaml>>
           \/ manifest # content /\ manifest' = content
                 /\ UNCHANGED <<manifest_pdf, manifest_jp2, papers_yaml>>
           \/ manifest_jp2 # content /\ manifest_jp2' = content
                 /\ UNCHANGED <<manifest_pdf, manifest, papers_yaml>>
           \/ papers_yaml # content /\ papers_yaml' = content
                 /\ UNCHANGED <<manifest_pdf, manifest, manifest_jp2>>
    /\ last' = "edit"
    /\ edits' = edits + 1
    /\ UNCHANGED <<manifests, outcome, pdf_manifest_path, before, previous, runs,
                   issue, transformed>>

Next == Merge \/ Edit

Spec == Init /\ [][Next]_vars

(***************************************************************************)
(* Claims about runs of the program, checked under Spec.                   *)
(***************************************************************************)
\* the last step was a run, and one that wrote its outputs
Ran == last = "run"

Succeeded == last = "run" /\ outcome = "ok"

\* the files the last run started from
BeforePdf == before[1]

BeforeLegacy == before[2]

BeforeJp2 == before[3]

BeforeYaml == before[4]

BeforeDir == before[5]

\* the PDF source the last run had: manifest_pdf.json if there was one, else
\* the legacy manifest.json
SourcePdf ==
    IF pdf_manifest_path = "manifest_pdf" THEN BeforePdf
    ELSE IF pdf_manifest_path = "manifest" THEN BeforeLegacy
    ELSE Absent

\* the entries of both sources, the PDF source first
LoadedEntries == SourcePdf.v \o BeforeJp2.v

\* the transforms of the loaded entries, in the order of their loading
LoadedTransformed ==
    [i \in 1..Len(LoadedEntries) |->
        TransformOne(load_paper_config(BeforeYaml), LoadedEntries[i])]

SlugOf(one) == _slugify(one["title"])

LoadedSlugs == {SlugOf(LoadedEntries[i]) : i \in 1..Len(LoadedEntries)}

\* C3 as stated: a second run straight after a successful one that had a PDF
\* manifest (manifest_pdf.json, or the legacy manifest.json) leaves
\* manifest.json and the manifests directory, with every file in it, as the
\* first run left them
C3Idempotent ==
    Ran /\ previous.outcome = "ok" /\ previous.pdf_manifest_path # "none" =>
        /\ manifest = BeforeLegacy
        /\ manifests = BeforeDir

\* the last run had to abort: a source it read does not parse, or both
\* sources gave no entry, or the configuration does not parse
MustAbort ==
    \/ SourcePdf.kind = "malformed"
    \/ BeforeJp2.kind = "malformed"
    \/ LoadedEntries = <<>>
    \/ BeforeYaml.kind = "malformed"

\* C4: a run that aborts (a malformed source, no entry in either source, a
\* malformed configuration) leaves every file and the manifests directory as
\* they were before it
C4AbortWritesNothing ==
    Ran /\ MustAbort => outcome # "ok" /\ files = before

\* a run that aborted on a malformed configuration over the outputs of an
\* earlier run
C4Witness ==
    /\ Ran
    /\ BeforeYaml.kind = "malformed"
    /\ LoadedEntries # <<>>
    /\ SourcePdf.kind = "json"
    /\ BeforeJp2.kind # "malformed"
    /\ manifests.exists

IsSortedByDate(list) ==
    \A i, j \in 1..Len(list) : i < j => ~StrLess(list[j]["date"], list[i]["date"])

DatesOf(list) == {list[i]["date"] : i \in 1..Len(list)}

\* the entries of list with the date d, in their order in list
OfDate(list, d) == SelectSeq(list, LAMBDA one : one["date"] = d)

\* the entries of list with the slug, in their order in list
OfSlug(list, slug) == SelectSeq(list, LAMBDA one : SlugOf(one) = slug)

\* the names of the files of manifests that hold the catalog of a paper
PaperFiles == {name \in DOMAIN manifests.entries :
                  "issues" \in DOMAIN manifests.entries[name]}

IndexPapers == manifests.entries[IndexName].papers

\* C6: in the written index the papers are sorted by title ascending, there
\* is one entry for each slug computed from the loaded entries and no other,
\* and the issue_count of a slug is the number of loaded entries, of both
\* sources, with that slug
C6IndexSortedCounted ==
    Succeeded =>
        /\ \A i, j \in 1..Len(IndexPapers) :
               i < j => ~StrLess(IndexPapers[j].title, IndexPapers[i].title)
        /\ \A i, j \in 1..Len(IndexPapers) :
               i # j => IndexPapers[i].slug # IndexPapers[j].slug
        /\ {IndexPapers[i].slug : i \in 1..Len(IndexPapers)} = LoadedSlugs
        /\ \A i \in 1..Len(IndexPapers) :
               IndexPapers[i].issue_count =
                   Cardinality({k \in 1..Len(LoadedEntries) :
                                   SlugOf(LoadedEntries[k]) = IndexPapers[i].slug})

\* an index of two papers, the later dated of which comes first by title,
\* one of them with entries of both sources
C6Witness ==
    /\ Succeeded
    /\ Len(IndexPapers) = 2
    /\ IndexPapers[1].issue_count >= 2
    /\ SourcePdf.v # <<>>
    /\ BeforeJp2.v # <<>>
    /\ StrLess(manifest.v[1]["title"], manifest.v[Len(manifest.v)]["title"]) = FALSE
    /\ StrLess(manifest.v[Len(manifest.v)]["title"], manifest.v[1]["title"])

RECURSIVE SumIssueCounts(_)
SumIssueCounts(papers) ==
    IF papers = <<>> THEN 0
    ELSE papers[1].issue_count + SumIssueCounts(Tail(papers))

\* C9 as stated: a successful run writes every loaded entry once to
\* manifest.json (as many entries as both sources hold), writes every entry of
\* manifest.json to the catalog manifests/<slug>.json of its slug, which holds
\* the entries of that slug and no other, and the issue_counts of the index
\* add up to the length of manifest.json
C9Partition ==
    Succeeded =>
        /\ Len(manifest.v) = Len(SourcePdf.v) + Len(BeforeJp2.v)
        /\ \A slug \in LoadedSlugs :
               /\ JsonName(slug) \in PaperFiles
               /\ manifests.entries[JsonName(slug)].issues
                      = OfSlug(manifest.v, slug)
        /\ SumIssueCounts(IndexPapers) = Len(manifest.v)

\* the names of the files a run over the loaded entries writes to manifests
WrittenNames == {JsonName(slug) : slug \in LoadedSlugs} \cup {IndexName}

\* C10: a run deletes no file of manifests and writes, besides index.json,
\* only the files of the slugs computed from its input: every other file of
\* the directory was there before the run and is as it was
C10StaleFilesKept ==
    Ran =>
        /\ DOMAIN BeforeDir.entries \subseteq DOMAIN manifests.entries
        /\ \A name \in DOMAIN manifests.entries :
               name \notin WrittenNames =>
                   /\ name \in DOMAIN BeforeDir.entries
                   /\ manifests.entries[name] = BeforeDir.entries[name]

\* after a successful run the directory holds the catalog of a paper that
\* index.json does not list
C10Witness ==
    /\ Succeeded
    /\ \E name \in PaperFiles :
           /\ name \notin WrittenNames
           /\ \A i \in 1..Len(IndexPapers) : JsonName(IndexPapers[i].slug) # name
====
